---- MODULE Spec2Model ----
(***************************************************************************)
(* One time step of the schemes of nanpack/hyperbolicsolvers.py.           *)
(*                                                                         *)
(* A state of the model is one call of one scheme function: the run        *)
(* configuration cfg, the caller's arrays Uo and Uo2, the arguments of the *)
(* call, and, once the call is over, its outcome (the returned array or    *)
(* the exception raised).  Init draws the configuration and the caller's   *)
(* arrays; there is one action per scheme function, which runs the whole   *)
(* function body.                                                          *)
(*                                                                         *)
(* Values.  A NumPy float is modelled as an exact rational <<n, d>> in     *)
(* lowest terms with d > 0, or as one of the three IEEE specials           *)
(* <<0, 0>> (nan), <<1, 0>> (+inf), <<-1, 0>> (-inf).  Rounding and the    *)
(* sign of zero are not modelled.                                          *)
(*                                                                         *)
(* Arrays are functions on 0..N-1, indexed as in the source.               *)
(***************************************************************************)
EXTENDS Integers, Sequences, FiniteSets, TLC

VARIABLES pc, scheme, cfg, ndim, Courant, UoIn, Uo2In, Uo, Uo2, args, ret

vars == <<pc, scheme, cfg, ndim, Courant, UoIn, Uo2In, Uo, Uo2, args, ret>>

(***************************** bounds ***************************************)
\* the largest grid size cfg.iMax (number of nodes of the state vector)
MaxN == 5

(************************* float arithmetic *********************************)
Abs(n) == IF n < 0 THEN -n ELSE n

Sgn(n) == IF n > 0 THEN 1 ELSE IF n < 0 THEN -1 ELSE 0

RECURSIVE GCD(_, _)
GCD(a, b) == IF b = 0 THEN a ELSE GCD(b, a % b)

\* the float n/d, d > 0, in lowest terms
Q(n, d) == LET g == GCD(Abs(n), d) IN <<n \div g, d \div g>>

\* the float of the integer n
R(n) == <<n, 1>>

NaN == <<0, 0>>

IsFinite(x) == x[2] # 0

IsNaN(x) == x = NaN

IsZero(x) == x[2] # 0 /\ x[1] = 0

\* -x
FNeg(x) == <<-x[1], x[2]>>

\* x + y: inf + (-inf) and anything with nan are nan
FAdd(x, y) ==
  IF IsFinite(x) /\ IsFinite(y)
  THEN LET g == GCD(x[2], y[2])
           l == (x[2] \div g) * y[2]
       IN Q(x[1] * (l \div x[2]) + y[1] * (l \div y[2]), l)
  ELSE IF IsNaN(x) \/ IsNaN(y) THEN NaN
  ELSE IF IsFinite(x) THEN y
  ELSE IF IsFinite(y) THEN x
  ELSE IF x = y THEN x ELSE NaN

\* x - y
FSub(x, y) == FAdd(x, FNeg(y))

\* x * y: inf * 0 and anything with nan are nan
FMul(x, y) ==
  IF IsFinite(x) /\ IsFinite(y)
  THEN LET g1 == GCD(Abs(x[1]), y[2])
           g2 == GCD(Abs(y[1]), x[2])
       IN Q((x[1] \div g1) * (y[1] \div g2), (x[2] \div g2) * (y[2] \div g1))
  ELSE IF IsNaN(x) \/ IsNaN(y) \/ IsZero(x) \/ IsZero(y) THEN NaN
  ELSE <<Sgn(x[1]) * Sgn(y[1]), 0>>

\* x / y as NumPy divides floats: 0/0 and inf/inf are nan, x/0 is +-inf,
\* no exception is raised
FDiv(x, y) ==
  IF IsNaN(x) \/ IsNaN(y) THEN NaN
  ELSE IF IsFinite(y)
       THEN IF y[1] = 0
            THEN IF IsFinite(x) /\ x[1] = 0 THEN NaN ELSE <<Sgn(x[1]), 0>>
            ELSE IF IsFinite(x)
                 THEN FMul(x, <<Sgn(y[1]) * y[2], Abs(y[1])>>)
                 ELSE <<Sgn(x[1]) * Sgn(y[1]), 0>>
       ELSE IF IsFinite(x) THEN R(0) ELSE NaN

\* abs(x)
FAbs(x) == <<Abs(x[1]), x[2]>>

\* np.sign(x) of a finite float, as a float
NpSign(x) == R(Sgn(x[1]))

\* x*x/2, the flux of the Burgers equation
Flux(x) == FDiv(FMul(x, x), R(2))

\* the array a*a/2
FluxArr(a) == [i \in DOMAIN a |-> Flux(a[i])]

\* len of the first axis of an array
ALen(a) == Cardinality(DOMAIN a)

(**************************** the heap **************************************)
(* obj: the arrays, by object; env: the object each Python name is bound   *)
(* to; wc: how many times each index of each object has been assigned;     *)
(* ix: the integers used so far as the index of an element, X[k], or       *)
(* resolved from the bounds of an assigned slice; sys: the arguments of    *)
(* the calls of the tridiagonal solver, in order.                          *)
(* The caller's arrays are the objects "Uo" and "Uo2".                     *)

Zeros(a) == [i \in DOMAIN a |-> 0]

\* the heap on entry of a scheme called with the arrays uo and uo2
Heap0(uo, uo2) ==
  [obj |-> ("Uo" :> uo) @@ ("Uo2" :> uo2),
   env |-> ("Uo" :> "Uo") @@ ("Uo2" :> "Uo2"),
   wc  |-> ("Uo" :> Zeros(uo)) @@ ("Uo2" :> Zeros(uo2)),
   ix  |-> {},
   sys |-> <<>>]

\* the array the name var is bound to
Rd(h, var) == h.obj[h.env[var]]

\* dst = src, no copy: dst is one more name of the object of src
NpBind(h, src, dst) == [h EXCEPT !.env = (dst :> h.env[src]) @@ @]

\* NpCopy without the copy, as if U = Uo had been written for U = Uo.copy()
NpCopyShared(h, src, dst) == NpBind(h, src, dst)

\* dst = src.copy(): a new object holding the values of src
NpCopy(h, src, dst) ==
  [h EXCEPT !.obj = (dst :> Rd(h, src)) @@ @,
            !.env = (dst :> dst) @@ @,
            !.wc  = (dst :> Zeros(Rd(h, src))) @@ @]

\* a[k] with an integer k: a negative k counts from the end of the array
At(a, k) == a[IF k < 0 THEN k + ALen(a) ELSE k]

\* the elements X[k], k in S, have been read
Touch(h, S) == [h EXCEPT !.ix = @ \cup S]

\* var[i] = v
Wr(h, var, i, v) ==
  LET o == h.env[var]
  IN [h EXCEPT !.obj[o][i] = v, !.wc[o][i] = @ + 1, !.ix = @ \cup {i}]

\* var[lo:hi] = vals, where DOMAIN vals is the slice; the right-hand side
\* has been evaluated in full before the first element is assigned
WrSlice(h, var, vals) ==
  LET o == h.env[var]
  IN [h EXCEPT !.obj[o] = [i \in DOMAIN @ |-> IF i \in DOMAIN vals THEN vals[i] ELSE @[i]],
               !.wc[o]  = [i \in DOMAIN @ |-> IF i \in DOMAIN vals THEN @[i] + 1 ELSE @[i]],
               !.ix     = @ \cup DOMAIN vals]

\* the indices of the slice [1:-1]
Interior(a) == 1 .. (ALen(a) - 2)

\* Uo.shape of a state with nd axes: the axes after the first have length 1
Shape(a, nd) == [k \in 1..nd |-> IF k = 1 THEN ALen(a) ELSE 1]

\* the number of element assignments made so far, over all objects
RECURSIVE SumOver(_, _)
SumOver(f, S) ==
  IF S = {} THEN 0
  ELSE LET x == CHOOSE y \in S : TRUE IN f[x] + SumOver(f, S \ {x})

Assignments(h) ==
  SumOver([o \in DOMAIN h.wc |-> SumOver(h.wc[o], DOMAIN h.wc[o])], DOMAIN h.wc)

(*************************** outcomes ***************************************)
\* return var
Returned(h, var) == [status |-> "returned", err |-> "none", val |-> h.env[var], h |-> h]

\* the function body ends without a return statement: None is returned
ReturnedNone(h) == [status |-> "returned", err |-> "none", val |-> "None", h |-> h]

\* raise: e is the kind of the exception
Raised(h, e) == [status |-> "raised", err |-> e, val |-> "None", h |-> h]

\* len(shapeU) == 2, the only dimension test of every scheme
NotOneD(shapeU) == Len(shapeU) = 2

(*********************** ExplicitFirstUpwind ********************************)
\* positive_a with the sign of the speed taken the wrong way round
positive_a_reversed(conv) == FSub(R(1), NpSign(conv))

positive_a(conv) == FAdd(R(1), NpSign(conv))

negative_a(conv) == FSub(R(1), NpSign(conv))

UpwindWaveNode(uo, Cn, conv, i) ==
  FSub(FSub(uo[i],
            FMul(FMul(FMul(Q(1, 2), Cn), positive_a(conv)), FSub(uo[i], uo[i-1]))),
       FMul(FMul(FMul(Q(1, 2), Cn), negative_a(conv)), FSub(uo[i+1], uo[i])))

UpwindBurgersNode(uo, Cn, i) ==
  LET E == FluxArr(uo)
  IN FSub(uo[i], FMul(Cn, FSub(E[i], E[i-1])))

ExplicitFirstUpwind(c, shapeU, Cn, h0) ==
  IF NotOneD(shapeU) THEN Raised(h0, "UnsupportedDimension")
  ELSE LET h1 == NpCopy(h0, "Uo", "U")
           uo == Rd(h1, "Uo")
       IN IF c.Model = "FO_WAVE"
          THEN Returned(WrSlice(h1, "U",
                 [i \in Interior(uo) |-> UpwindWaveNode(uo, Cn, c.conv, i)]), "U")
          ELSE IF c.Model = "INV_BURGERS"
          THEN Returned(WrSlice(h1, "U",
                 [i \in Interior(uo) |-> UpwindBurgersNode(uo, Cn, i)]), "U")
          ELSE Returned(h1, "U")

(******************************* Lax ****************************************)
\* LaxWaveNode averaging Uo[i] with its right neighbour
LaxWaveNodeOffCentre(uo, Cn, i) ==
  FSub(FMul(Q(1, 2), FAdd(uo[i+1], uo[i])),
       FMul(FMul(Q(1, 2), Cn), FSub(uo[i+1], uo[i-1])))

LaxWaveNode(uo, Cn, i) ==
  FSub(FMul(Q(1, 2), FAdd(uo[i+1], uo[i-1])),
       FMul(FMul(Q(1, 2), Cn), FSub(uo[i+1], uo[i-1])))

LaxBurgersNode(uo, Cn, i) ==
  LET E == FluxArr(uo)
  IN FSub(FMul(Q(1, 2), FAdd(uo[i+1], uo[i-1])),
          FMul(FMul(Q(1, 4), Cn), FSub(E[i+1], E[i-1])))

Lax(c, shapeU, Cn, h0) ==
  IF NotOneD(shapeU) THEN Raised(h0, "UnsupportedDimension")
  ELSE LET h1 == NpCopy(h0, "Uo", "U")
           uo == Rd(h1, "Uo")
       IN IF c.Model = "FO_WAVE"
          THEN Returned(WrSlice(h1, "U",
                 [i \in Interior(uo) |-> LaxWaveNode(uo, Cn, i)]), "U")
          ELSE IF c.Model = "INV_BURGERS"
          THEN Returned(WrSlice(h1, "U",
                 [i \in Interior(uo) |-> LaxBurgersNode(uo, Cn, i)]), "U")
          ELSE Returned(h1, "U")

(************************** MidpointLeapfrog ********************************)
\* the return statement is commented out: a model that is neither FO_WAVE
\* nor INV_BURGERS falls off the end of the function
MidpointLeapfrog(c, shapeU, Cn, h0) ==
  IF NotOneD(shapeU) THEN Raised(h0, "UnsupportedDimension")
  ELSE LET h1 == NpCopy(h0, "Uo", "U")
       IN IF c.Model = "FO_WAVE" THEN Raised(h1, "UnsupportedModelForScheme")
          ELSE IF c.Model = "INV_BURGERS" THEN Raised(h1, "UnsupportedModelForScheme")
          ELSE ReturnedNone(h1)

(***************************** LaxWendroff **********************************)
LaxWendroffWaveNode(uo, Cn, i) ==
  LET Courant2 == FMul(Cn, Cn)
  IN FAdd(FSub(uo[i], FMul(FMul(Q(1, 2), Cn), FSub(uo[i+1], uo[i-1]))),
          FMul(FMul(Q(1, 2), Courant2),
               FAdd(FSub(uo[i+1], FMul(R(2), uo[i])), uo[i-1])))

LaxWendroffBurgersNode(uo, Cn, i) ==
  LET E == FluxArr(uo)
      Courant2 == FMul(Cn, Cn)
  IN FAdd(FSub(uo[i], FMul(FMul(Q(1, 2), Cn), FSub(E[i+1], E[i-1]))),
          FMul(FMul(Q(1, 4), Courant2),
               FSub(FMul(FAdd(uo[i+1], uo[i]), FSub(E[i+1], E[i])),
                    FMul(FAdd(uo[i], uo[i-1]), FSub(E[i], E[i-1])))))

LaxWendroff(c, shapeU, Cn, h0) ==
  IF NotOneD(shapeU) THEN Raised(h0, "UnsupportedDimension")
  ELSE LET h1 == NpCopy(h0, "Uo", "U")
           uo == Rd(h1, "Uo")
       IN IF c.Model = "FO_WAVE"
          THEN Returned(WrSlice(h1, "U",
                 [i \in Interior(uo) |-> LaxWendroffWaveNode(uo, Cn, i)]), "U")
          ELSE IF c.Model = "INV_BURGERS"
          THEN Returned(WrSlice(h1, "U",
                 [i \in Interior(uo) |-> LaxWendroffBurgersNode(uo, Cn, i)]), "U")
          ELSE Returned(h1, "U")

(************************ LaxWendroffMultiStep ******************************)
\* MultiStepNode reading the half-step value two nodes to the left
MultiStepNodeFarLeft(h, Cn, i) ==
  LET uo == Rd(h, "Uo")
      h1 == Wr(h, "Uhalf", i,
               FSub(FMul(Q(1, 2), FAdd(At(uo, i+1), At(uo, i))),
                    FMul(FMul(Q(1, 2), Cn), FSub(At(uo, i+1), At(uo, i)))))
      uo1 == Rd(h1, "Uo")
      uhalf == Rd(h1, "Uhalf")
  IN Touch(Wr(h1, "U", i,
              FSub(At(uo1, i), FMul(Cn, FSub(At(uhalf, i), At(uhalf, i-2))))),
           {i - 2, i, i + 1})

\* the body of the loop at node i: Uhalf[i] is assigned, then U[i]
MultiStepNode(h, Cn, i) ==
  LET uo == Rd(h, "Uo")
      h1 == Wr(h, "Uhalf", i,
               FSub(FMul(Q(1, 2), FAdd(At(uo, i+1), At(uo, i))),
                    FMul(FMul(Q(1, 2), Cn), FSub(At(uo, i+1), At(uo, i)))))
      uo1 == Rd(h1, "Uo")
      uhalf == Rd(h1, "Uhalf")
  IN Touch(Wr(h1, "U", i,
              FSub(At(uo1, i), FMul(Cn, FSub(At(uhalf, i), At(uhalf, i-1))))),
           {i - 1, i, i + 1})

\* for i in range(i, hi)
RECURSIVE MultiStepLoop(_, _, _, _)
MultiStepLoop(h, Cn, i, hi) ==
  IF i >= hi THEN h ELSE MultiStepLoop(MultiStepNode(h, Cn, i), Cn, i + 1, hi)

LaxWendroffMultiStep(c, shapeU, Cn, h0) ==
  IF NotOneD(shapeU) THEN Raised(h0, "UnsupportedDimension")
  ELSE LET h1 == NpCopy(h0, "Uo", "U")
           h2 == NpCopy(h1, "Uo", "Uhalf")
       IN IF c.Model = "FO_WAVE"
          THEN Returned(MultiStepLoop(h2, Cn, 1, c.iMax - 1), "U")
          ELSE IF c.Model = "INV_BURGERS"
          THEN Raised(h2, "UnsupportedModelForScheme")
          ELSE Returned(h2, "U")

(****************************** MacCormack **********************************)
(* iMax = shapeU binds iMax to the shape tuple.  In the FO_WAVE and the    *)
(* INV_BURGERS branch range(1,iMax-1) subtracts 1 from that tuple, which   *)
(* raises TypeError before the first node; the VISC_BURGERS branch reads   *)
(* the name A, which is bound nowhere, and raises NameError.               *)
MacCormack(c, shapeU, Cn, h0) ==
  IF NotOneD(shapeU) THEN Raised(h0, "UnsupportedDimension")
  ELSE LET h1 == NpCopy(h0, "Uo", "U")
           h2 == NpCopy(h1, "Uo", "Utemp")
       IN IF c.Model = "FO_WAVE" THEN Raised(h2, "TypeError")
          ELSE IF c.Model = "INV_BURGERS" THEN Raised(h2, "TypeError")
          ELSE IF c.Model = "VISC_BURGERS" THEN Raised(h2, "NameError")
          ELSE Returned(h2, "U")

(************************ FourthOrderRungeKutta *****************************)
\* stages 1 and 2: Uo[i] - 0.5*Courant*(F[i+1]-F[i-1])/2.0
RKHalfStageNode(uo, F, Cn, i) ==
  FSub(uo[i], FDiv(FMul(FMul(Q(1, 2), Cn), FSub(F[i+1], F[i-1])), R(2)))

\* stage 3: Uo[i] - Courant*(F[i+1]-F[i-1])/2.0
RKFullStageNode(uo, F, Cn, i) ==
  FSub(uo[i], FDiv(FMul(Cn, FSub(F[i+1], F[i-1])), R(2)))

\* stage 4: the four differences weighted 1/6, 1/3, 1/3, 1/6
RKFinalNode(uo, F1, F2, F3, F4, Cn, i) ==
  FSub(uo[i],
       FMul(FMul(Q(1, 2), Cn),
            FAdd(FAdd(FAdd(FMul(Q(1, 6), FSub(F1[i+1], F1[i-1])),
                           FMul(Q(1, 3), FSub(F2[i+1], F2[i-1]))),
                      FMul(Q(1, 3), FSub(F3[i+1], F3[i-1]))),
                 FMul(Q(1, 6), FSub(F4[i+1], F4[i-1])))))

\* the four stages; flux is TRUE in the INV_BURGERS branch, where each
\* stage differences E = U*U/2 of the previous stage instead of U
RKStages(h1, Cn, flux) ==
  LET F(a) == IF flux THEN FluxArr(a) ELSE a
      h2 == NpCopy(NpCopy(NpCopy(h1, "Uo", "U1"), "Uo", "U2"), "Uo", "U3")
      F1 == F(Rd(h2, "Uo"))
      h3 == WrSlice(h2, "U1",
              [i \in Interior(F1) |-> RKHalfStageNode(Rd(h2, "Uo"), F1, Cn, i)])
      F2 == F(Rd(h3, "U1"))
      h4 == WrSlice(h3, "U2",
              [i \in Interior(F2) |-> RKHalfStageNode(Rd(h3, "Uo"), F2, Cn, i)])
      F3 == F(Rd(h4, "U2"))
      h5 == WrSlice(h4, "U3",
              [i \in Interior(F3) |-> RKFullStageNode(Rd(h4, "Uo"), F3, Cn, i)])
      F4 == F(Rd(h5, "U3"))
      \* in the FO_WAVE branch stage 4 reads Uo again; in the INV_BURGERS
      \* branch it reads E1, computed from Uo before stage 1
      G1 == IF flux THEN F1 ELSE Rd(h5, "Uo")
  IN WrSlice(h5, "U",
       [i \in Interior(F4) |-> RKFinalNode(Rd(h5, "Uo"), G1, F2, F3, F4, Cn, i)])

FourthOrderRungeKutta(c, shapeU, Cn, h0) ==
  IF NotOneD(shapeU) THEN Raised(h0, "UnsupportedDimension")
  ELSE LET h1 == NpCopy(h0, "Uo", "U")
       IN IF c.Model = "FO_WAVE" THEN Returned(RKStages(h1, Cn, FALSE), "U")
          ELSE IF c.Model = "INV_BURGERS" THEN Returned(RKStages(h1, Cn, TRUE), "U")
          ELSE Returned(h1, "U")

(************************** ModifiedRungeKutta ******************************)
\* Uo[i] - Courant*(F[i+1]-F[i-1])/w
ModRKStageNode(uo, F, Cn, w, i) ==
  FSub(uo[i], FDiv(FMul(Cn, FSub(F[i+1], F[i-1])), R(w)))

\* one stage: U[1:-1] is assigned from Uo and from F, which is U itself in
\* the FO_WAVE branch and E = U*U/2 in the Burgers branch
ModRKStage(h, Cn, w, flux) ==
  LET F == IF flux THEN FluxArr(Rd(h, "U")) ELSE Rd(h, "U")
  IN WrSlice(h, "U", [i \in Interior(F) |-> ModRKStageNode(Rd(h, "Uo"), F, Cn, w, i)])

\* the first stage of the Burgers branch takes E from Uo
ModRKFirstBurgersStage(h, Cn) ==
  LET E == FluxArr(Rd(h, "Uo"))
  IN WrSlice(h, "U", [i \in Interior(E) |-> ModRKStageNode(Rd(h, "Uo"), E, Cn, 8, i)])

\* U[1:-1] = U[1:-1] + diffX*(U[2:] - 2.0*U[1:-1] + U[0:-2])
ModRKViscous(h, diffX) ==
  LET u == Rd(h, "U")
  IN WrSlice(h, "U",
       [i \in Interior(u) |->
          FAdd(u[i], FMul(diffX, FAdd(FSub(u[i+1], FMul(R(2), u[i])), u[i-1])))])

ModifiedRungeKutta(c, shapeU, Cn, diffX, h0) ==
  IF NotOneD(shapeU) THEN Raised(h0, "UnsupportedDimension")
  ELSE LET h1 == NpCopy(h0, "Uo", "U")
       IN IF c.Model = "FO_WAVE"
          THEN Returned(ModRKStage(ModRKStage(ModRKStage(ModRKStage(
                          h1, Cn, 8, FALSE), Cn, 6, FALSE), Cn, 4, FALSE), Cn, 2, FALSE), "U")
          ELSE IF c.Model \in {"INV_BURGERS", "VISC_BURGERS"}
          THEN LET h5 == ModRKStage(ModRKStage(ModRKStage(ModRKFirstBurgersStage(
                          h1, Cn), Cn, 6, TRUE), Cn, 4, TRUE), Cn, 2, TRUE)
               IN IF c.Model = "VISC_BURGERS"
                  THEN Returned(ModRKViscous(h5, diffX), "U")
                  ELSE Returned(h5, "U")
          ELSE Returned(h1, "U")

(*************************** TridiagonalSolver ******************************)
(* nanpack.tridiagonal: forward elimination, then back-substitution, no    *)
(* pivoting, over the iMax rows A[i]*U[i-1] + B[i]*U[i] + C[i]*U[i+1] =    *)
(* D[i]; the first row has no A term and the last row no C term.  The      *)
(* solution is stored in the buffer UU, which is returned.                 *)

\* rows 0..i eliminated: cp and dp are the normalized super-diagonal and
\* right-hand side
RECURSIVE ThomasForward(_, _, _, _, _, _, _, _)
ThomasForward(A, B, C, D, i, iMax, cp, dp) ==
  IF i >= iMax THEN [cp |-> cp, dp |-> dp]
  ELSE LET m == IF i = 0 THEN B[0] ELSE FSub(B[i], FMul(A[i], cp[i-1]))
           ci == FDiv(C[i], m)
           di == IF i = 0 THEN FDiv(D[0], m)
                 ELSE FDiv(FSub(D[i], FMul(A[i], dp[i-1])), m)
       IN ThomasForward(A, B, C, D, i + 1, iMax,
                        [cp EXCEPT ![i] = ci], [dp EXCEPT ![i] = di])

\* rows iMax-1 down to i substituted back
RECURSIVE ThomasBackward(_, _, _, _, _)
ThomasBackward(h, f, i, iMax, UU) ==
  IF i < 0 THEN h
  ELSE LET x == IF i = iMax - 1 THEN f.dp[i]
                ELSE FSub(f.dp[i], FMul(f.cp[i], Rd(h, UU)[i+1]))
       IN ThomasBackward(Wr(h, UU, i, x), f, i - 1, iMax, UU)

TridiagonalSolver(h, iMax, A, B, C, D, UU) ==
  LET z == [i \in 0..(iMax - 1) |-> R(0)]
      h1 == [h EXCEPT !.sys = Append(@, [iMax |-> iMax, A |-> A, B |-> B,
                                         C |-> C, D |-> D])]
  IN ThomasBackward(h1, ThomasForward(A, B, C, D, 0, iMax, z, z), iMax - 1, iMax, UU)

(****************************** EulersBTCS **********************************)
\* the face-averaged Jacobian (E[i+1]-E[i])/(Uo[i+1]-Uo[i])
JacobianNode(uo, i) ==
  LET E == FluxArr(uo)
  IN FDiv(FSub(E[i+1], E[i]), FSub(uo[i+1], uo[i]))

(* iMax = shapeU binds iMax to the shape tuple, and range(iMax) raises     *)
(* TypeError: in the FO_WAVE branch while the list A is built, in the      *)
(* VISC_BURGERS branch, after A[1:-1] has been assigned, while the list a  *)
(* is built.  The solver is never reached.                                 *)
EulersBTCS(c, shapeU, Cn, diffX, h0) ==
  IF NotOneD(shapeU) THEN Raised(h0, "UnsupportedDimension")
  ELSE LET h1 == NpCopy(h0, "Uo", "U")
       IN IF c.Model = "FO_WAVE" THEN Raised(h1, "TypeError")
          ELSE IF c.Model = "INV_BURGERS" THEN Raised(h1, "UnsupportedModelForScheme")
          ELSE IF c.Model = "VISC_BURGERS"
          THEN LET h2 == NpCopy(h1, "Uo", "A")
                   uo == Rd(h2, "Uo")
                   h3 == WrSlice(h2, "A", [i \in Interior(uo) |-> JacobianNode(uo, i)])
               IN Raised(h3, "TypeError")
          ELSE Returned(h1, "U")

(***************************** CrankNicolson ********************************)
\* CrankNicolsonD with the weight 0.5*Courant on the explicit difference
CrankNicolsonDHalfCourant(uo, Cn, iMax) ==
  [i \in 0..(iMax - 1) |->
     IF i \in Interior(uo)
     THEN FAdd(FNeg(uo[i]), FMul(FMul(Q(1, 2), Cn), FSub(uo[i+1], uo[i-1])))
     ELSE R(0)]

\* D[1:-1] = -Uo[1:-1] + 0.25*Courant*(Uo[2:]-Uo[0:-2]); D[0] and D[-1]
\* keep the 0 the list was built with
CrankNicolsonD(uo, Cn, iMax) ==
  [i \in 0..(iMax - 1) |->
     IF i \in Interior(uo)
     THEN FAdd(FNeg(uo[i]), FMul(FMul(Q(1, 4), Cn), FSub(uo[i+1], uo[i-1])))
     ELSE R(0)]

CrankNicolson(c, shapeU, Cn, h0) ==
  IF NotOneD(shapeU) THEN Raised(h0, "UnsupportedDimension")
  ELSE LET h1 == NpCopy(h0, "Uo", "U")
       IN IF c.Model = "FO_WAVE"
          THEN LET cc == FMul(Q(1, 4), Cn)
                   A == [i \in 0..(c.iMax - 1) |-> cc]
                   B == [i \in 0..(c.iMax - 1) |-> R(-1)]
                   C == [i \in 0..(c.iMax - 1) |-> FNeg(cc)]
                   D == CrankNicolsonD(Rd(h1, "Uo"), Cn, c.iMax)
                   h2 == NpCopy(h1, "Uo", "UU")
                   h3 == TridiagonalSolver(h2, c.iMax, A, B, C, D, "UU")
               IN Returned(NpBind(h3, "UU", "U"), "U")
          ELSE IF c.Model = "INV_BURGERS" THEN Raised(h1, "UnsupportedModelForScheme")
          ELSE Returned(h1, "U")

(**************************** BeamAndWarming ********************************)
\* in the INV_BURGERS branch iMax = shapeU is the shape tuple and
\* range(iMax) raises TypeError while the list A is built
BeamAndWarming(c, shapeU, Cn, h0) ==
  IF NotOneD(shapeU) THEN Raised(h0, "UnsupportedDimension")
  ELSE LET h1 == NpCopy(h0, "Uo", "U")
       IN IF c.Model = "FO_WAVE" THEN Raised(h1, "UnsupportedModelForScheme")
          ELSE IF c.Model = "INV_BURGERS" THEN Raised(h1, "TypeError")
          ELSE Returned(h1, "U")

(***************************** FirstOrderTVD ********************************)
\* nanpack.secondaryfunctions.CalcUi: the state difference across a face
CalcUi(a, b) == FSub(a, b)

\* Alpha without the test of dU
AlphaUnguarded(dE, dU, ui) == FDiv(dE, dU)

\* the characteristic speed across a face: dE/dU, or Uo[i] when dU == 0
Alpha(dE, dU, ui) == IF IsZero(dU) THEN ui ELSE FDiv(dE, dU)

\* Phi with the face difference taken the wrong way round
PhiReversed(alpha, dU) == FMul(FAbs(alpha), FNeg(dU))

\* Phi with the limiter left out
PhiDropped(alpha, dU) == R(0)

\* the flux limiter of a face: abs(alpha)*dU
Phi(alpha, dU) == FMul(FAbs(alpha), dU)

\* the body of the loop at node i
FirstOrderTVDNode(h, E, Cn, i) ==
  LET uo == Rd(h, "Uo")
      dUiPlus12 == CalcUi(At(uo, i+1), At(uo, i))
      dUiMinus12 == CalcUi(At(uo, i), At(uo, i-1))
      alphaiPlus12 == Alpha(FSub(At(E, i+1), At(E, i)), dUiPlus12, At(uo, i))
      alphaiMinus12 == Alpha(FSub(At(E, i), At(E, i-1)), dUiMinus12, At(uo, i))
      phiPlus == Phi(alphaiPlus12, dUiPlus12)
      phiMinus == Phi(alphaiMinus12, dUiMinus12)
      Utemp == FSub(At(uo, i), FMul(FMul(Q(1, 2), Cn), FSub(At(E, i+1), At(E, i-1))))
  IN Touch(Wr(h, "U", i,
              FAdd(Utemp, FMul(FMul(Q(1, 2), Cn), FSub(phiPlus, phiMinus)))),
           {i - 1, i, i + 1})

\* for i in range(i, hi)
RECURSIVE FirstOrderTVDLoop(_, _, _, _, _)
FirstOrderTVDLoop(h, E, Cn, i, hi) ==
  IF i >= hi THEN h
  ELSE FirstOrderTVDLoop(FirstOrderTVDNode(h, E, Cn, i), E, Cn, i + 1, hi)

FirstOrderTVD(c, shapeU, Cn, h0) ==
  IF NotOneD(shapeU) THEN Raised(h0, "UnsupportedDimension")
  ELSE IF c.Model = "FO_WAVE" THEN Raised(h0, "UnsupportedModelForScheme")
  ELSE LET h1 == NpCopy(h0, "Uo", "U")
           E == FluxArr(Rd(h1, "Uo"))
       IN Returned(FirstOrderTVDLoop(h1, E, Cn, 1, c.iMax - 1), "U")

(***************************** SecondOrderTVD *******************************)
\* backend.fetchoptions: FetchOptions().TVDLimiterFunctionOptions(), the
\* allow-list of limiter-function names
TVDLimiterFunctionOptions == {"Harten-Yee-Upwind", "Roe-Sweby-Upwind"}

\* LimiterFuncAllowed with the test left out
LimiterFuncUnchecked(LimiterFunc, limfunc_options) == TRUE

\* LimiterFunc in limfunc_options
LimiterFuncAllowed(LimiterFunc, limfunc_options) == LimiterFunc \in limfunc_options

(* iMax = shapeU binds iMax to the shape tuple: once the limiter name has  *)
(* been accepted, range(2,iMax-2) subtracts 2 from that tuple and raises   *)
(* TypeError before the first node, so tvd.CalculateTVD is never called    *)
(* and no U[i] is assigned.                                                *)
SecondOrderTVD(c, shapeU, Cn, LimiterFunc, Limiter, h0) ==
  IF NotOneD(shapeU) THEN Raised(h0, "UnsupportedDimension")
  ELSE IF c.Model = "FO_WAVE" THEN Raised(h0, "UnsupportedModelForScheme")
  ELSE LET h1 == NpCopy(h0, "Uo", "U")
       IN IF ~LimiterFuncAllowed(LimiterFunc, TVDLimiterFunctionOptions)
          THEN Raised(h1, "InvalidOption")
          ELSE Raised(h1, "TypeError")

(********************************* FTCS *************************************)
\* A = Uo.copy(); A[1:-1] = (E[2:]-E[1:-1]) / (Uo[2:]-Uo[1:-1])
JacobianArr(h) ==
  LET h1 == NpCopy(h, "Uo", "A")
      uo == Rd(h1, "Uo")
  IN WrSlice(h1, "A", [i \in Interior(uo) |-> JacobianNode(uo, i)])

\* Uo[i+1] - 2.0*Uo[i] + Uo[i-1]
SecondDifference(uo, i) == FAdd(FSub(uo[i+1], FMul(R(2), uo[i])), uo[i-1])

FTCSNode(uo, A, Cn, diffX, i) ==
  FAdd(FSub(uo[i],
            FMul(FMul(FMul(FMul(Q(1, 2), Q(1, 2)), Cn), FAdd(A[i+1], A[i-1])),
                 FSub(uo[i+1], uo[i-1]))),
       FMul(diffX, SecondDifference(uo, i)))

FTCS(c, shapeU, Cn, diffX, h0) ==
  IF NotOneD(shapeU) THEN Raised(h0, "UnsupportedDimension")
  ELSE IF c.Model = "FO_WAVE" THEN Raised(h0, "UnsupportedModelForScheme")
  ELSE IF c.Model = "INV_BURGERS" THEN Raised(h0, "UnsupportedModelForScheme")
  ELSE LET h1 == NpCopy(h0, "Uo", "U")
           h2 == JacobianArr(h1)
           uo == Rd(h2, "Uo")
           A == Rd(h2, "A")
       IN Returned(WrSlice(h2, "U",
            [i \in Interior(uo) |-> FTCSNode(uo, A, Cn, diffX, i)]), "U")

(********************************* FTBCS ************************************)
FTBCSNode(uo, A, Cn, diffX, i) ==
  FAdd(FSub(uo[i],
            FMul(FMul(FMul(Q(1, 2), Cn), FAdd(A[i+1], A[i-1])),
                 FSub(uo[i], uo[i-1]))),
       FMul(diffX, SecondDifference(uo, i)))

FTBCS(c, shapeU, Cn, diffX, h0) ==
  IF NotOneD(shapeU) THEN Raised(h0, "UnsupportedDimension")
  ELSE IF c.Model = "FO_WAVE" THEN Raised(h0, "UnsupportedModelForScheme")
  ELSE IF c.Model = "INV_BURGERS" THEN Raised(h0, "UnsupportedModelForScheme")
  ELSE LET h1 == NpCopy(h0, "Uo", "U")
           h2 == JacobianArr(h1)
           uo == Rd(h2, "Uo")
           A == Rd(h2, "A")
       IN Returned(WrSlice(h2, "U",
            [i \in Interior(uo) |-> FTBCSNode(uo, A, Cn, diffX, i)]), "U")

(***************************** DuFortFrankel ********************************)
\* iMax = shapeU binds iMax to the shape tuple and range(1,iMax) raises
\* TypeError before the first node
DuFortFrankel(c, shapeU, Cn, diffX, h0) ==
  IF NotOneD(shapeU) THEN Raised(h0, "UnsupportedDimension")
  ELSE IF c.Model = "FO_WAVE" THEN Raised(h0, "UnsupportedModelForScheme")
  ELSE IF c.Model = "INV_BURGERS" THEN Raised(h0, "UnsupportedModelForScheme")
  ELSE LET h1 == NpCopy(h0, "Uo", "U")
       IN Raised(h1, "TypeError")

(********************************* BTBCS ************************************)
(* The body does not compile: the weight tables are written                *)
(* {"1"=1.0, ...} and the line assigning A[1:-1] has an unmatched          *)
(* bracket.  No statement of the function can run, whatever its            *)
(* arguments.  The other functions are modelled as they run in a module    *)
(* that Python accepts, that is, with this function left out.              *)
BTBCS(c, shapeU, Cn, diffX, Accuracy, h0) == Raised(h0, "SyntaxError")

(************************** the inputs of a call ****************************)
\* cfg.Model.upper()
Models == {"FO_WAVE", "INV_BURGERS", "VISC_BURGERS"}

\* the values of the nodes of the caller's state
StateValues == {R(0), R(1), R(2)}

\* the Courant numbers
Courants == {Q(1, 2), R(2)}

\* the diffusion numbers
DiffusionNumbers == {Q(1, 4), R(1)}

\* cfg.conv, the speed a of the wave equation; the Burgers models do not
\* read it
Speeds(model) == IF model = "FO_WAVE" THEN {R(-1), R(0), R(1)} ELSE {R(1)}

\* the numbers of axes of the caller's state
Dims(n) == IF n = 3 THEN {1, 2, 3} ELSE {1}

\* the limiter-function names and limiter strategies of a call
LimiterFuncs == TVDLimiterFunctionOptions \cup {"no-such-limiter"}

Limiters == {"G"}

\* the accuracy orders of a call
Accuracies == {"first-order", "second-order", "third-order", "tenth-order"}

\* the state of the time level before Uo: Uo mirrored, which is Uo itself
\* when Uo is uniform
Mirror(a) == [i \in DOMAIN a |-> a[ALen(a) - 1 - i]]

IsUniform(a) == \A i \in DOMAIN a : a[i] = a[0]

(* The four stages of the Burgers branches of the Runge-Kutta schemes      *)
(* square the state three times over; their exact values outgrow the       *)
(* integers of the model checker, except on a grid of three nodes, on a    *)
(* uniform state, or with Courant number 2 on even node values.  The       *)
(* Burgers branches are run on those inputs.                               *)
StagesExact(c, Cn, uo) ==
  \/ c.Model = "FO_WAVE"
  \/ c.iMax = 3
  \/ IsUniform(uo)
  \/ Cn = R(2) /\ \A i \in DOMAIN uo : uo[i][2] = 1 /\ uo[i][1] % 2 = 0

(* The forward elimination of the tridiagonal solver builds continued      *)
(* fractions in Courant/4; with Courant number 1/2 their exact values      *)
(* outgrow the integers of the model checker from the sixth row on.        *)
(* Larger systems are solved with Courant number 2.                        *)
SolveExact(c, Cn) == c.iMax <= 5 \/ Cn = R(2)

NoArgs == [diffX |-> "-", LimiterFunc |-> "-", Limiter |-> "-", Accuracy |-> "-"]

NoRet ==
  [status |-> "none", err |-> "none", isArr |-> FALSE, U |-> <<>>, wc |-> <<>>, nw |-> 0,
   ix |-> {}, sys |-> <<>>]

Init ==
  /\ pc = "ready"
  /\ scheme = "none"
  /\ args = NoArgs
  /\ ret = NoRet
  /\ \E n \in 3..MaxN :
       /\ UoIn \in [0..(n - 1) -> StateValues]
       /\ ndim \in Dims(n)
       /\ \E m \in Models : cfg \in [Model : {m}, iMax : {n}, conv : Speeds(m)]
  /\ Courant \in Courants
  /\ Uo2In = Mirror(UoIn)
  /\ Uo = UoIn
  /\ Uo2 = Uo2In

(******************************* the calls **********************************)
\* the call of the scheme name with the arguments a is over, with outcome out
Call(name, a, out) ==
  /\ pc = "ready"
  /\ pc' = "done"
  /\ scheme' = name
  /\ args' = a
  /\ ret' = [status |-> out.status,
             err    |-> out.err,
             isArr  |-> out.val # "None",
             U      |-> IF out.val # "None" THEN out.h.obj[out.val] ELSE <<>>,
             wc     |-> IF out.val # "None" THEN out.h.wc[out.val] ELSE <<>>,
             nw     |-> Assignments(out.h),
             ix     |-> out.h.ix,
             sys    |-> out.h.sys]
  /\ Uo' = out.h.obj["Uo"]
  /\ Uo2' = out.h.obj["Uo2"]
  /\ UNCHANGED <<cfg, ndim, Courant, UoIn, Uo2In>>

shapeU == Shape(Uo, ndim)

CallExplicitFirstUpwind ==
  Call("ExplicitFirstUpwind", NoArgs,
       ExplicitFirstUpwind(cfg, shapeU, Courant, Heap0(Uo, Uo2)))

CallLax ==
  Call("Lax", NoArgs, Lax(cfg, shapeU, Courant, Heap0(Uo, Uo2)))

CallMidpointLeapfrog ==
  Call("MidpointLeapfrog", NoArgs,
       MidpointLeapfrog(cfg, shapeU, Courant, Heap0(Uo, Uo2)))

CallLaxWendroff ==
  Call("LaxWendroff", NoArgs, LaxWendroff(cfg, shapeU, Courant, Heap0(Uo, Uo2)))

CallLaxWendroffMultiStep ==
  Call("LaxWendroffMultiStep", NoArgs,
       LaxWendroffMultiStep(cfg, shapeU, Courant, Heap0(Uo, Uo2)))

CallMacCormack ==
  Call("MacCormack", NoArgs, MacCormack(cfg, shapeU, Courant, Heap0(Uo, Uo2)))

CallFourthOrderRungeKutta ==
  /\ StagesExact(cfg, Courant, Uo)
  /\ Call("FourthOrderRungeKutta", NoArgs,
          FourthOrderRungeKutta(cfg, shapeU, Courant, Heap0(Uo, Uo2)))

CallModifiedRungeKutta ==
  /\ StagesExact(cfg, Courant, Uo)
  /\ \E diffX \in DiffusionNumbers :
       Call("ModifiedRungeKutta", [NoArgs EXCEPT !.diffX = diffX],
            ModifiedRungeKutta(cfg, shapeU, Courant, diffX, Heap0(Uo, Uo2)))

CallEulersBTCS ==
  \E diffX \in DiffusionNumbers :
    Call("EulersBTCS", [NoArgs EXCEPT !.diffX = diffX],
         EulersBTCS(cfg, shapeU, Courant, diffX, Heap0(Uo, Uo2)))

CallCrankNicolson ==
  /\ SolveExact(cfg, Courant)
  /\ Call("CrankNicolson", NoArgs,
          CrankNicolson(cfg, shapeU, Courant, Heap0(Uo, Uo2)))

CallBeamAndWarming ==
  Call("BeamAndWarming", NoArgs, BeamAndWarming(cfg, shapeU, Courant, Heap0(Uo, Uo2)))

CallFirstOrderTVD ==
  Call("FirstOrderTVD", NoArgs, FirstOrderTVD(cfg, shapeU, Courant, Heap0(Uo, Uo2)))

CallSecondOrderTVD ==
  \E LimiterFunc \in LimiterFuncs, Limiter \in Limiters :
    Call("SecondOrderTVD",
         [NoArgs EXCEPT !.LimiterFunc = LimiterFunc, !.Limiter = Limiter],
         SecondOrderTVD(cfg, shapeU, Courant, LimiterFunc, Limiter, Heap0(Uo, Uo2)))

CallFTCS ==
  \E diffX \in DiffusionNumbers :
    Call("FTCS", [NoArgs EXCEPT !.diffX = diffX],
         FTCS(cfg, shapeU, Courant, diffX, Heap0(Uo, Uo2)))

CallFTBCS ==
  \E diffX \in DiffusionNumbers :
    Call("FTBCS", [NoArgs EXCEPT !.diffX = diffX],
         FTBCS(cfg, shapeU, Courant, diffX, Heap0(Uo, Uo2)))

CallDuFortFrankel ==
  \E diffX \in DiffusionNumbers :
    Call("DuFortFrankel", [NoArgs EXCEPT !.diffX = diffX],
         DuFortFrankel(cfg, shapeU, Courant, diffX, Heap0(Uo, Uo2)))

CallBTBCS ==
  \E diffX \in DiffusionNumbers, Accuracy \in Accuracies :
    Call("BTBCS", [NoArgs EXCEPT !.diffX = diffX, !.Accuracy = Accuracy],
         BTBCS(cfg, shapeU, Courant, diffX, Accuracy, Heap0(Uo, Uo2)))

Next ==
  \/ CallExplicitFirstUpwind
  \/ CallLax
  \/ CallMidpointLeapfrog
  \/ CallLaxWendroff
  \/ CallLaxWendroffMultiStep
  \/ CallMacCormack
  \/ CallFourthOrderRungeKutta
  \/ CallModifiedRungeKutta
  \/ CallEulersBTCS
  \/ CallCrankNicolson
  \/ CallBeamAndWarming
  \/ CallFirstOrderTVD
  \/ CallSecondOrderTVD
  \/ CallFTCS
  \/ CallFTBCS
  \/ CallDuFortFrankel
  \/ CallBTBCS

Spec == Init /\ [][Next]_vars

(************************ the branches of the schemes ***********************)
\* the models for which the scheme s has a branch that assigns nodes of U
\* (for MacCormack, EulersBTCS, BeamAndWarming, SecondOrderTVD, DuFortFrankel
\* and BTBCS, the branch written for the model, whether or not it can run)
UpdateFormulas(s) ==
  CASE s \in {"ExplicitFirstUpwind", "Lax", "LaxWendroff", "FourthOrderRungeKutta"}
         -> {"FO_WAVE", "INV_BURGERS"}
    [] s \in {"LaxWendroffMultiStep", "CrankNicolson"} -> {"FO_WAVE"}
    [] s \in {"MacCormack", "ModifiedRungeKutta"}
         -> {"FO_WAVE", "INV_BURGERS", "VISC_BURGERS"}
    [] s = "EulersBTCS" -> {"FO_WAVE", "VISC_BURGERS"}
    [] s = "BeamAndWarming" -> {"INV_BURGERS"}
    [] s \in {"FirstOrderTVD", "SecondOrderTVD"} -> {"INV_BURGERS", "VISC_BURGERS"}
    [] s \in {"FTCS", "FTBCS", "DuFortFrankel", "BTBCS"} -> {"VISC_BURGERS"}
    [] OTHER -> {}

(******************************* the claims *********************************)
Done == pc = "done"

\* the call returned an array
ReturnedState == Done /\ ret.status = "returned" /\ ret.isArr

\* the call raised the exception of kind e
Failed(e) == Done /\ ret.status = "raised" /\ ret.err = e

N == cfg.iMax

\* the array of the integers of the sequence s, indexed from 0
Arr(s) == [i \in 0..(Len(s) - 1) |-> s[i + 1]]

\* the schemes whose body Python accepts
Compiled == scheme # "BTBCS"

\* C1 (as claimed): whenever a scheme other than MidpointLeapfrog returns a
\* state U, the boundary nodes are those of the input: U[0] = Uo[0] and
\* U[N-1] = Uo[N-1].
C1_BoundaryNodesUntouched ==
  (ReturnedState /\ scheme # "MidpointLeapfrog")
    => /\ ret.U[0] = UoIn[0]
       /\ ret.U[N - 1] = UoIn[N - 1]

\* C2: when a call is over, returned or failed, the caller's Uo and Uo2 hold
\* the values they held before the call.
C2_InputsNotMutated == Done => (Uo = UoIn /\ Uo2 = Uo2In)

\* C2's case: a four-stage call has returned a state that differs from Uo,
\* so nodes were assigned, stage after stage, in an array that is not Uo.
C2_Witness ==
  /\ ReturnedState
  /\ scheme = "ModifiedRungeKutta"
  /\ cfg.Model = "VISC_BURGERS"
  /\ ret.U # UoIn
  /\ \A i \in Interior(UoIn) : ret.wc[i] = 5

\* C3 (as claimed): on a one-dimensional uniform state, Uo[i] = k for all i
\* (and Uo2 = Uo), every scheme returns, for each model it has a branch for,
\* the state U with U[i] = k for all i.
C3_UniformStateIsSteady ==
  (/\ Done
   /\ Compiled
   /\ ndim = 1
   /\ IsUniform(UoIn)
   /\ Uo2In = UoIn
   /\ cfg.Model \in UpdateFormulas(scheme))
    => /\ ReturnedState
       /\ \A i \in DOMAIN UoIn : ret.U[i] = UoIn[0]

\* C4 (as claimed): a call of a scheme on a one-dimensional state with a
\* model the scheme has no branch for fails with UnsupportedModelForScheme.
C4_UnsupportedModelFails ==
  (/\ Done
   /\ Compiled
   /\ ndim = 1
   /\ cfg.Model \notin UpdateFormulas(scheme))
    => Failed("UnsupportedModelForScheme")

\* C5 (as claimed): every call of MidpointLeapfrog on a one-dimensional
\* state fails with the 'formulation not available' exception, whatever the
\* model.
C5_MidpointLeapfrogAlwaysFails ==
  (Done /\ scheme = "MidpointLeapfrog" /\ ndim = 1)
    => Failed("UnsupportedModelForScheme")

\* C6: ExplicitFirstUpwind on a one-dimensional state returns, at every
\* interior node, Uo[i] - C*(Uo[i]-Uo[i-1]) on the wave model with a > 0,
\* Uo[i] - C*(Uo[i+1]-Uo[i]) on the wave model with a < 0, and
\* Uo[i] - C*(E[i]-E[i-1]), E = Uo^2/2, on INV_BURGERS; Uo = [0,1,2,1,0],
\* C = 1/2, a = 1 gives [0, 1/2, 3/2, 3/2, 0].
C6_UpwindStencil ==
  (Done /\ scheme = "ExplicitFirstUpwind" /\ ndim = 1
        /\ cfg.Model \in {"FO_WAVE", "INV_BURGERS"})
    => /\ ReturnedState
       /\ (cfg.Model = "FO_WAVE" /\ cfg.conv[1] > 0)
            => \A i \in 1..(N - 2) :
                 ret.U[i] = FSub(UoIn[i], FMul(Courant, FSub(UoIn[i], UoIn[i-1])))
       /\ (cfg.Model = "FO_WAVE" /\ cfg.conv[1] < 0)
            => \A i \in 1..(N - 2) :
                 ret.U[i] = FSub(UoIn[i], FMul(Courant, FSub(UoIn[i+1], UoIn[i])))
       /\ cfg.Model = "INV_BURGERS"
            => \A i \in 1..(N - 2) :
                 ret.U[i] = FSub(UoIn[i],
                                 FMul(Courant, FSub(Flux(UoIn[i]), Flux(UoIn[i-1]))))
       /\ (/\ cfg.Model = "FO_WAVE"
           /\ cfg.conv = R(1)
           /\ Courant = Q(1, 2)
           /\ UoIn = Arr(<<R(0), R(1), R(2), R(1), R(0)>>))
            => ret.U = Arr(<<R(0), Q(1, 2), Q(3, 2), Q(3, 2), R(0)>>)

\* C6's case: the call of the worked example has returned.
C6_Witness ==
  /\ ReturnedState
  /\ scheme = "ExplicitFirstUpwind"
  /\ ndim = 1
  /\ cfg.Model = "FO_WAVE"
  /\ cfg.conv = R(1)
  /\ Courant = Q(1, 2)
  /\ UoIn = Arr(<<R(0), R(1), R(2), R(1), R(0)>>)
  /\ ret.U[3] = Q(3, 2)

\* C7: Lax on the wave model and a one-dimensional state returns, at every
\* interior node, (Uo[i+1]+Uo[i-1])/2 - (C/2)*(Uo[i+1]-Uo[i-1]);
\* Uo = [0,1,2,1,0], C = 1/2 gives [0, 1/2, 1, 3/2, 0].
C7_LaxWave ==
  (Done /\ scheme = "Lax" /\ ndim = 1 /\ cfg.Model = "FO_WAVE")
    => /\ ReturnedState
       /\ \A i \in 1..(N - 2) :
            ret.U[i] = FSub(FDiv(FAdd(UoIn[i+1], UoIn[i-1]), R(2)),
                            FMul(FDiv(Courant, R(2)), FSub(UoIn[i+1], UoIn[i-1])))
       /\ (Courant = Q(1, 2) /\ UoIn = Arr(<<R(0), R(1), R(2), R(1), R(0)>>))
            => ret.U = Arr(<<R(0), Q(1, 2), R(1), Q(3, 2), R(0)>>)

\* C7's case: the call of the worked example has returned.
C7_Witness ==
  /\ ReturnedState
  /\ scheme = "Lax"
  /\ ndim = 1
  /\ cfg.Model = "FO_WAVE"
  /\ Courant = Q(1, 2)
  /\ UoIn = Arr(<<R(0), R(1), R(2), R(1), R(0)>>)
  /\ ret.U[2] = R(1)

\* C8 (as claimed): a call of a scheme on a state that is not
\* one-dimensional fails with UnsupportedDimension.
C8_NotOneDimensionalFails ==
  (Done /\ Compiled /\ ndim # 1) => Failed("UnsupportedDimension")

\* C9 (as claimed): SecondOrderTVD, called on a one-dimensional state with a
\* model it has a branch for and a limiter name of the allow-list, returns a
\* state with U[i] = Uo[i] at i = 0, 1, N-2, N-1 and every node of 2..N-3
\* assigned exactly once.
C9_SecondOrderTVDRange ==
  (/\ Done
   /\ scheme = "SecondOrderTVD"
   /\ ndim = 1
   /\ cfg.Model # "FO_WAVE"
   /\ args.LimiterFunc \in TVDLimiterFunctionOptions)
    => /\ ReturnedState
       /\ \A i \in {0, 1, N - 2, N - 1} : ret.U[i] = UoIn[i]
       /\ \A i \in 2..(N - 3) : ret.wc[i] = 1

\* C10 (as claimed): a call of SecondOrderTVD on a one-dimensional state
\* with a limiter name outside the allow-list fails with InvalidOption.
C10_InvalidLimiterAlwaysInvalidOption ==
  (/\ Done
   /\ scheme = "SecondOrderTVD"
   /\ ndim = 1
   /\ args.LimiterFunc \notin TVDLimiterFunctionOptions)
    => Failed("InvalidOption")

\* C10 (amended): on a one-dimensional state and a model other than FO_WAVE,
\* a call of SecondOrderTVD with a limiter name outside the allow-list fails
\* with InvalidOption before any element of any array has been assigned
\* (the limiter is evaluated only in the node loop, which assigns U[i]);
\* with a limiter name of the allow-list no call fails with InvalidOption.
C10_LimiterValidatedFirst ==
  (Done /\ scheme = "SecondOrderTVD" /\ ndim = 1)
    => /\ (/\ cfg.Model # "FO_WAVE"
           /\ args.LimiterFunc \notin TVDLimiterFunctionOptions)
            => (Failed("InvalidOption") /\ ret.nw = 0)
       /\ args.LimiterFunc \in TVDLimiterFunctionOptions
            => ~Failed("InvalidOption")

\* C10's case: a call with a limiter name outside the allow-list, on a
\* Burgers model, has failed with InvalidOption.
C10_Witness ==
  /\ scheme = "SecondOrderTVD"
  /\ ndim = 1
  /\ cfg.Model = "INV_BURGERS"
  /\ args.LimiterFunc = "no-such-limiter"
  /\ Failed("InvalidOption")
  /\ ret.nw = 0

\* C11 (as claimed): a call of BTBCS on a one-dimensional state of the viscous
\* model is accepted when the accuracy is 'first-order', 'second-order' or
\* 'third-order', and fails with InvalidOption for any other accuracy, and
\* only then.
C11_AccuracySelectsTable ==
  (Done /\ scheme = "BTBCS" /\ ndim = 1 /\ cfg.Model = "VISC_BURGERS")
    => IF args.Accuracy \in {"first-order", "second-order", "third-order"}
       THEN ~Failed("InvalidOption") /\ ~Failed("SyntaxError")
       ELSE Failed("InvalidOption")

\* x <= y, for finite values
FLe(x, y) == IsFinite(x) /\ IsFinite(y) /\ x[1] * y[2] <= y[1] * x[2]

NonDecreasing(a) == \A i \in 0..(ALen(a) - 2) : FLe(a[i], a[i+1])

NonIncreasing(a) == \A i \in 0..(ALen(a) - 2) : FLe(a[i+1], a[i])

\* every node of b lies between the least and the greatest node of a
WithinRange(a, b) ==
  \A i \in DOMAIN b : \E j, k \in DOMAIN a : FLe(a[j], b[i]) /\ FLe(b[i], a[k])

\* the state b is monotone in the direction the state a is, within its range
MonotoneAs(a, b) ==
  /\ NonDecreasing(a) => NonDecreasing(b)
  /\ NonIncreasing(a) => NonIncreasing(b)
  /\ (NonDecreasing(a) \/ NonIncreasing(a)) => WithinRange(a, b)

\* the CFL condition of the Burgers flux: Courant*|Uo[i]| <= 1 at every node
CFL(Cn, uo) == \A i \in DOMAIN uo : FLe(FMul(Cn, FAbs(uo[i])), R(1))

\* C12 (as claimed): whatever the Courant number, the state returned by
\* FirstOrderTVD or SecondOrderTVD for a monotone input state is monotone in
\* the same direction and stays within [min Uo, max Uo].
C12_TVDMonotoneAnyCourant ==
  (ReturnedState /\ scheme \in {"FirstOrderTVD", "SecondOrderTVD"})
    => MonotoneAs(UoIn, ret.U)

\* C12 (amended): when the Courant number satisfies Courant*|Uo[i]| <= 1 at
\* every node, the state returned by FirstOrderTVD or SecondOrderTVD for a
\* monotone input state is monotone in the same direction and stays within
\* [min Uo, max Uo].
C12_TVDMonotoneUnderCFL ==
  (ReturnedState /\ scheme \in {"FirstOrderTVD", "SecondOrderTVD"}
                 /\ CFL(Courant, UoIn))
    => MonotoneAs(UoIn, ret.U)

\* C12's case: FirstOrderTVD has returned, for a monotone state that is not
\* uniform and under the CFL condition, a state other than its input.
C12_Witness ==
  /\ ReturnedState
  /\ scheme = "FirstOrderTVD"
  /\ CFL(Courant, UoIn)
  /\ NonDecreasing(UoIn)
  /\ ~IsUniform(UoIn)
  /\ ret.U # UoIn
  /\ \A i \in Interior(UoIn) : ret.wc[i] = 1

\* the explicit schemes
ExplicitSchemes ==
  {"ExplicitFirstUpwind", "Lax", "MidpointLeapfrog", "LaxWendroff",
   "LaxWendroffMultiStep", "MacCormack", "FourthOrderRungeKutta",
   "ModifiedRungeKutta", "FirstOrderTVD", "SecondOrderTVD", "FTCS", "FTBCS",
   "DuFortFrankel"}

\* the orders in which the interior nodes of a state of n nodes can be visited
Orders(n) ==
  {o \in [1..(n - 2) -> 1..(n - 2)] : \A i, j \in 1..(n - 2) : o[i] = o[j] => i = j}

\* the body of the loop of LaxWendroffMultiStep run at the nodes o[k], o[k+1], ...
RECURSIVE MultiStepInOrder(_, _, _, _)
MultiStepInOrder(h, Cn, o, k) ==
  IF k > Len(o) THEN h ELSE MultiStepInOrder(MultiStepNode(h, Cn, o[k]), Cn, o, k + 1)

\* the body of the loop of FirstOrderTVD run at the nodes o[k], o[k+1], ...
RECURSIVE FirstOrderTVDInOrder(_, _, _, _, _)
FirstOrderTVDInOrder(h, E, Cn, o, k) ==
  IF k > Len(o) THEN h
  ELSE FirstOrderTVDInOrder(FirstOrderTVDNode(h, E, Cn, o[k]), E, Cn, o, k + 1)

\* the heap of a call when its loop over the nodes starts
LoopEntry == NpCopy(NpCopy(Heap0(UoIn, Uo2In), "Uo", "U"), "Uo", "Uhalf")

\* C13 (as claimed): an explicit scheme that returns a state for a model it
\* has a branch for has assigned every interior node of that state exactly
\* once, and the node loops of LaxWendroffMultiStep and FirstOrderTVD return
\* the same state in whatever order the interior nodes are visited.
C13_NodesOnceInAnyOrder ==
  (/\ ReturnedState
   /\ scheme \in ExplicitSchemes
   /\ ndim = 1
   /\ cfg.Model \in UpdateFormulas(scheme))
    => /\ \A i \in Interior(UoIn) : ret.wc[i] = 1
       /\ scheme = "LaxWendroffMultiStep"
            => \A o \in Orders(N) :
                 Rd(MultiStepInOrder(LoopEntry, Courant, o, 1), "U") = ret.U
       /\ scheme = "FirstOrderTVD"
            => \A o \in Orders(N) :
                 Rd(FirstOrderTVDInOrder(LoopEntry, FluxArr(UoIn), Courant, o, 1), "U")
                   = ret.U

\* the implicit schemes
ImplicitSchemes == {"EulersBTCS", "CrankNicolson", "BeamAndWarming", "BTBCS"}

\* the sequence s has an entry for each of the n nodes, and no other
Aligned(s, n) == DOMAIN s = 0..(n - 1)

\* C14 (as claimed): an implicit scheme called on a one-dimensional state with
\* a model it has a branch for hands the tridiagonal solver one system, with
\* the size argument N and with a sub-diagonal, a diagonal, a super-diagonal
\* and a right-hand side that each have an entry for every node 0..N-1.
C14_SolverSystemAligned ==
  (/\ Done
   /\ scheme \in ImplicitSchemes
   /\ ndim = 1
   /\ cfg.Model \in UpdateFormulas(scheme))
    => /\ Len(ret.sys) = 1
       /\ ret.sys[1].iMax = N
       /\ Aligned(ret.sys[1].A, N)
       /\ Aligned(ret.sys[1].B, N)
       /\ Aligned(ret.sys[1].C, N)
       /\ Aligned(ret.sys[1].D, N)

\* C15: FirstOrderTVD on a one-dimensional state fails on the wave model
\* before any element is assigned; on the other models it returns, at every
\* interior node, the finite value
\* Uo[i] - (C/2)*(E[i+1]-E[i-1]) + (C/2)*(|alpha+|*dU+ - |alpha-|*dU-), where
\* dU+ = Uo[i+1]-Uo[i], dU- = Uo[i]-Uo[i-1], and the alpha of a face is Uo[i]
\* when the dU of the face is zero and the flux difference over dU otherwise.
C15_FirstOrderTVDNoDivisionByZero ==
  (Done /\ scheme = "FirstOrderTVD" /\ ndim = 1)
    => IF cfg.Model = "FO_WAVE"
       THEN Failed("UnsupportedModelForScheme") /\ ret.nw = 0
       ELSE /\ ReturnedState
            /\ \A i \in 1..(N - 2) :
                 LET E == [j \in DOMAIN UoIn |-> FDiv(FMul(UoIn[j], UoIn[j]), R(2))]
                     dUp == FSub(UoIn[i+1], UoIn[i])
                     dUm == FSub(UoIn[i], UoIn[i-1])
                     ap == IF dUp = R(0) THEN UoIn[i]
                           ELSE FDiv(FSub(E[i+1], E[i]), dUp)
                     am == IF dUm = R(0) THEN UoIn[i]
                           ELSE FDiv(FSub(E[i], E[i-1]), dUm)
                     half == FDiv(Courant, R(2))
                 IN /\ IsFinite(ret.U[i])
                    /\ ret.U[i] =
                         FAdd(FSub(UoIn[i], FMul(half, FSub(E[i+1], E[i-1]))),
                              FMul(half, FSub(FMul(FAbs(ap), dUp), FMul(FAbs(am), dUm))))

\* C15's case: FirstOrderTVD has returned a state for an input with a face
\* of zero difference next to a face of non-zero difference.
C15_Witness ==
  /\ ReturnedState
  /\ scheme = "FirstOrderTVD"
  /\ ndim = 1
  /\ cfg.Model = "INV_BURGERS"
  /\ \E i \in 1..(N - 2) :
       /\ UoIn[i+1] = UoIn[i]
       /\ UoIn[i] # UoIn[i-1]
       /\ ret.U[i] # UoIn[i]
       /\ IsFinite(ret.U[i])

\* C16: CrankNicolson on a one-dimensional state of the wave model hands the
\* solver, for every interior row i, the sub-diagonal C/4, the diagonal -1,
\* the super-diagonal -C/4 and the right-hand side
\* -Uo[i] + (C/4)*(Uo[i+1]-Uo[i-1]), and returns; on INV_BURGERS it fails
\* with UnsupportedModelForScheme; on no other model than the wave model is
\* a system handed to the solver.
C16_CrankNicolsonSystem ==
  (Done /\ scheme = "CrankNicolson" /\ ndim = 1)
    => /\ cfg.Model = "FO_WAVE"
            => /\ ReturnedState
               /\ Len(ret.sys) = 1
               /\ \A i \in 1..(N - 2) :
                    LET quarter == FDiv(Courant, R(4))
                    IN /\ ret.sys[1].A[i] = quarter
                       /\ ret.sys[1].B[i] = R(-1)
                       /\ ret.sys[1].C[i] = FNeg(quarter)
                       /\ ret.sys[1].D[i] =
                            FAdd(FNeg(UoIn[i]),
                                 FMul(quarter, FSub(UoIn[i+1], UoIn[i-1])))
       /\ cfg.Model = "INV_BURGERS" => Failed("UnsupportedModelForScheme")
       /\ cfg.Model # "FO_WAVE" => ret.sys = <<>>

\* C16's case: CrankNicolson has returned on the wave model for a state whose
\* neighbours of an interior node differ, so that the explicit central
\* difference of the right-hand side is not zero.
C16_Witness ==
  /\ ReturnedState
  /\ scheme = "CrankNicolson"
  /\ ndim = 1
  /\ cfg.Model = "FO_WAVE"
  /\ Len(ret.sys) = 1
  /\ \E i \in 1..(N - 2) :
       /\ UoIn[i+1] # UoIn[i-1]
       /\ ret.sys[1].D[i] # FNeg(UoIn[i])

\* C17 (as claimed): MacCormack, called on a one-dimensional state with a
\* model it has a branch for, runs the predictor and then the corrector at
\* every interior node: it returns a state whose interior nodes the corrector
\* has each assigned once.
C17_CorrectorAfterPredictor ==
  (/\ Done
   /\ scheme = "MacCormack"
   /\ ndim = 1
   /\ cfg.Model \in UpdateFormulas("MacCormack"))
    => /\ ReturnedState
       /\ \A i \in Interior(UoIn) : ret.wc[i] = 1

C19_MultiStepIsLaxWendroff ==
  (Done /\ scheme = "LaxWendroffMultiStep" /\ ndim = 1 /\ cfg.Model = "FO_WAVE")
    => /\ ReturnedState
       /\ \A i \in 1..(N - 2) :
            ret.U[i] =
              FAdd(FSub(UoIn[i],
                        FMul(FDiv(Courant, R(2)), FSub(UoIn[i+1], UoIn[i-1]))),
                   FMul(FDiv(FMul(Courant, Courant), R(2)),
                        FAdd(FSub(UoIn[i+1], FMul(R(2), UoIn[i])), UoIn[i-1])))

\* C20 (as claimed): MacCormack on the wave model and a one-dimensional
\* state returns the state LaxWendroff returns, at every interior node
\* Uo[i] - (C/2)*(Uo[i+1]-Uo[i-1]) + (C^2/2)*(Uo[i+1]-2*Uo[i]+Uo[i-1]).
C20_MacCormackIsLaxWendroff ==
  (Done /\ scheme = "MacCormack" /\ ndim = 1 /\ cfg.Model = "FO_WAVE")
    => /\ ReturnedState
       /\ ret.U = Rd(LaxWendroff(cfg, Shape(UoIn, 1), Courant,
                                 Heap0(UoIn, Uo2In)).h, "U")

\* the values tried for alpha on a face of zero difference
FallbackValues == {R(-1), R(0), R(3)}

NonNegative(a) == \A i \in DOMAIN a : FLe(R(0), a[i])

\* C21: on INV_BURGERS and a one-dimensional state of non-negative values,
\* FirstOrderTVD returns the state ExplicitFirstUpwind returns, at every
\* interior node Uo[i] - C*(E[i]-E[i-1]), and the update with any other
\* value of alpha on the faces of zero difference gives the same node.
C21_FirstOrderTVDIsUpwind ==
  (/\ Done
   /\ scheme = "FirstOrderTVD"
   /\ ndim = 1
   /\ cfg.Model = "INV_BURGERS"
   /\ NonNegative(UoIn))
    => /\ ReturnedState
       /\ ret.U = Rd(ExplicitFirstUpwind(cfg, Shape(UoIn, 1), Courant,
                                         Heap0(UoIn, Uo2In)).h, "U")
       /\ \A i \in 1..(N - 2) :
            LET E == [j \in DOMAIN UoIn |-> FDiv(FMul(UoIn[j], UoIn[j]), R(2))]
                dUp == FSub(UoIn[i+1], UoIn[i])
                dUm == FSub(UoIn[i], UoIn[i-1])
                half == FDiv(Courant, R(2))
            IN /\ ret.U[i] = FSub(UoIn[i], FMul(Courant, FSub(E[i], E[i-1])))
               /\ \A v \in FallbackValues :
                    LET ap == IF dUp = R(0) THEN v ELSE FDiv(FSub(E[i+1], E[i]), dUp)
                        am == IF dUm = R(0) THEN v ELSE FDiv(FSub(E[i], E[i-1]), dUm)
                    IN ret.U[i] =
                         FAdd(FSub(UoIn[i], FMul(half, FSub(E[i+1], E[i-1]))),
                              FMul(half, FSub(FMul(FAbs(ap), dUp),
                                              FMul(FAbs(am), dUm))))

\* C21's case: FirstOrderTVD has returned on INV_BURGERS, for a state of at
\* least four nodes with a face of zero difference and a face of non-zero
\* difference, a state other than its input.
C21_Witness ==
  /\ ReturnedState
  /\ scheme = "FirstOrderTVD"
  /\ ndim = 1
  /\ cfg.Model = "INV_BURGERS"
  /\ N >= 4
  /\ NonNegative(UoIn)
  /\ \E i \in 1..(N - 2) : UoIn[i+1] = UoIn[i] /\ UoIn[i] # UoIn[i-1]
  /\ \E i \in 1..(N - 2) : ret.U[i] # UoIn[i] /\ ret.wc[i] = 1

\* C22 (as claimed): BeamAndWarming on a one-dimensional state of INV_BURGERS
\* hands the solver, for every interior row i, the sub-diagonal
\* -(C/4)*Uo[i-1], the diagonal 1, the super-diagonal (C/4)*Uo[i+1] and the
\* right-hand side Uo[i] - (C/2)*(E[i+1]-E[i-1]) + (C/4)*(Uo[i+1]^2-Uo[i-1]^2);
\* on the wave model it fails with UnsupportedModelForScheme.
C22_BeamAndWarmingSystem ==
  (Done /\ scheme = "BeamAndWarming" /\ ndim = 1)
    => /\ cfg.Model = "FO_WAVE" => Failed("UnsupportedModelForScheme")
       /\ cfg.Model = "INV_BURGERS"
            => /\ Len(ret.sys) = 1
               /\ \A i \in 1..(N - 2) :
                    LET quarter == FDiv(Courant, R(4))
                        E == [j \in DOMAIN UoIn |-> FDiv(FMul(UoIn[j], UoIn[j]), R(2))]
                    IN /\ ret.sys[1].A[i] = FNeg(FMul(quarter, UoIn[i-1]))
                       /\ ret.sys[1].B[i] = R(1)
                       /\ ret.sys[1].C[i] = FMul(quarter, UoIn[i+1])
                       /\ ret.sys[1].D[i] =
                            FAdd(FSub(UoIn[i],
                                      FMul(FDiv(Courant, R(2)), FSub(E[i+1], E[i-1]))),
                                 FMul(quarter,
                                      FSub(FMul(UoIn[i+1], UoIn[i+1]),
                                           FMul(UoIn[i-1], UoIn[i-1]))))

\* C23 (as claimed): Lax on INV_BURGERS and a one-dimensional state returns,
\* at every interior node i, a value U[i] with
\* U[i] - (Uo[i+1]+Uo[i-1])/2 = -(C/2)*(E[i+1]-E[i-1]).
C23_LaxBurgersFluxTerm ==
  (Done /\ scheme = "Lax" /\ ndim = 1 /\ cfg.Model = "INV_BURGERS")
    => /\ ReturnedState
       /\ \A i \in 1..(N - 2) :
            LET E == [j \in DOMAIN UoIn |-> FDiv(FMul(UoIn[j], UoIn[j]), R(2))]
            IN FSub(ret.U[i], FDiv(FAdd(UoIn[i+1], UoIn[i-1]), R(2)))
                 = FNeg(FMul(FDiv(Courant, R(2)), FSub(E[i+1], E[i-1])))

====
